---------------------------- MODULE Spec2Model ----------------------------
(***************************************************************************)
(* Model of src/chain.py: the console loop that classifies a question,     *)
(* has an LLM chain translate it to SQL, runs the SQL, optionally has the  *)
(* LLM write plotting code and executes it, and asks the LLM for a final   *)
(* answer.                                                                 *)
(*                                                                         *)
(* Text is a sequence of one-character strings, so that lower(), strip(),  *)
(* 'in', find(), replace() and split() are computed character by           *)
(* character as Python computes them.                                      *)
(***************************************************************************)
EXTENDS Integers, Sequences, FiniteSets, TLC

(***************************************************************************)
(* Bounds of the input sets.                                               *)
(***************************************************************************)
\* most words in a question given to the functions checked on their own
MaxWords == 2
\* most whitespace characters around an LLM reply, on each side
MaxPad == 1

(***************************************************************************)
(* Python str operations.                                                  *)
(***************************************************************************)
UpperLetters == <<"A", "B", "C", "D", "E", "F", "G", "H", "I", "J", "K", "L", "M",
                  "N", "O", "P", "Q", "R", "S", "T", "U", "V", "W", "X", "Y", "Z">>

LowerLetters == <<"a", "b", "c", "d", "e", "f", "g", "h", "i", "j", "k", "l", "m",
                  "n", "o", "p", "q", "r", "s", "t", "u", "v", "w", "x", "y", "z">>

Whitespace == {" ", "\n", "\t"}

LowerChar(c) ==
    IF \E i \in 1..26 : UpperLetters[i] = c
    THEN LowerLetters[CHOOSE i \in 1..26 : UpperLetters[i] = c]
    ELSE c

\* s.lower()
Lower(s) == [i \in 1..Len(s) |-> LowerChar(s[i])]

\* s starts with sub at (1-based) position i
MatchAt(sub, s, i) ==
    /\ i >= 1
    /\ i + Len(sub) - 1 <= Len(s)
    /\ \A j \in 1..Len(sub) : s[i + j - 1] = sub[j]

\* sub in s
Contains(sub, s) == \E i \in 1..(Len(s) + 1) : MatchAt(sub, s, i)

\* s.strip()
Strip(s) ==
    LET keep == {i \in 1..Len(s) : s[i] \notin Whitespace}
    IN  IF keep = {} THEN <<>>
        ELSE LET lo == CHOOSE i \in keep : \A j \in keep : i <= j
                 hi == CHOOSE i \in keep : \A j \in keep : j <= i
             IN  SubSeq(s, lo, hi)

\* s.find(sub), as a 0-based index, -1 when sub does not occur
Find(sub, s) ==
    LET hits == {i \in 1..(Len(s) + 1) : MatchAt(sub, s, i)}
    IN  IF hits = {} THEN -1
        ELSE (CHOOSE i \in hits : \A j \in hits : i <= j) - 1

\* s[start:] for a 0-based start; a negative start counts from the end
SliceFrom(s, start) ==
    LET from == IF start >= 0 THEN start
                ELSE IF Len(s) + start >= 0 THEN Len(s) + start ELSE 0
    IN  SubSeq(s, from + 1, Len(s))

\* s.replace(old, ""), scanning left to right without overlap (old is not empty)
RECURSIVE RemoveFrom(_, _, _)
RemoveFrom(old, s, i) ==
    IF i > Len(s) THEN <<>>
    ELSE IF MatchAt(old, s, i) THEN RemoveFrom(old, s, i + Len(old))
    ELSE <<s[i]>> \o RemoveFrom(old, s, i + 1)

Remove(old, s) == RemoveFrom(old, s, 1)

\* s.split(sep)[-1]: the piece after the last separator found scanning left to
\* right without overlap, the whole of s when there is none
RECURSIVE LastPieceFrom(_, _, _, _)
LastPieceFrom(sep, s, i, start) ==
    IF i > Len(s) THEN SubSeq(s, start, Len(s))
    ELSE IF MatchAt(sep, s, i)
         THEN LastPieceFrom(sep, s, i + Len(sep), i + Len(sep))
         ELSE LastPieceFrom(sep, s, i + 1, start)

LastPiece(sep, s) == LastPieceFrom(sep, s, 1, 1)

(***************************************************************************)
(* Literals of the program.                                                *)
(***************************************************************************)
sensitive_keywords == <<
    <<"s", "e", "c", "u", "r", "i", "t", "y">>,
    <<"p", "a", "s", "s", "w", "o", "r", "d">>,
    <<"a", "u", "t", "h", "e", "n", "t", "i", "c", "a", "t", "i", "o", "n">>,
    <<"t", "o", "k", "e", "n">>,
    <<"c", "r", "e", "d", "e", "n", "t", "i", "a", "l", "s">> >>

modification_keywords == <<
    <<"i", "n", "s", "e", "r", "t">>,
    <<"u", "p", "d", "a", "t", "e">>,
    <<"d", "e", "l", "e", "t", "e">>,
    <<"d", "r", "o", "p">>,
    <<"a", "l", "t", "e", "r">>,
    <<"t", "r", "u", "n", "c", "a", "t", "e">> >>

SafeToProceed == <<"s", "a", "f", "e", " ", "t", "o", " ", "p", "r", "o", "c", "e", "e", "d">>

YesText == <<"y", "e", "s">>

ExitText == <<"e", "x", "i", "t">>

GroqText == <<"g", "r", "o", "q">>

ImportText == <<"i", "m", "p", "o", "r", "t">>

\* the backquote character (the lexer of TLA+ does not take it in a string)
Backquote == "backquote"

FencePython == <<Backquote, Backquote, Backquote, "p", "y", "t", "h", "o", "n">>

Fence == <<Backquote, Backquote, Backquote>>

SqlMarker == <<"S", "Q", "L", "Q", "u", "e", "r", "y", ":">>

(***************************************************************************)
(* Outcomes of an external call (console read, LLM, chain, database,       *)
(* generated code): it returns a text, raises an Exception, or raises      *)
(* KeyboardInterrupt (a BaseException that 'except Exception' lets pass).  *)
(***************************************************************************)
Returned(t) == [kind |-> "ok", text |-> t]

RaisedException == [kind |-> "exc", text |-> <<>>]

RaisedInterrupt == [kind |-> "kbd", text |-> <<>>]

Outcomes(texts) == {Returned(t) : t \in texts} \cup {RaisedException, RaisedInterrupt}

(***************************************************************************)
(* refine_prompt.  The result of a call is a record: raised ("none", or    *)
(* the kind of exception that left the function), ret (the value returned  *)
(* when nothing was raised) and events (the prints and LLM calls it made,  *)
(* in order).                                                              *)
(***************************************************************************)
Keywords == sensitive_keywords \o modification_keywords

\* keyword.lower() in question.lower()
KeywordIn(keyword, q) == Contains(Lower(keyword), Lower(q))

SafeReplyExact(text) == Contains(SafeToProceed, text)

\* "safe to proceed" in response.content.lower()
SafeReply(text) == Contains(SafeToProceed, Lower(text))

\* the body of the 'if' of the keyword loop: one LLM call, then return
Adjudicate(o) ==
    IF o.kind = "ok"
    THEN IF SafeReply(o.text)
         THEN [raised |-> "none", ret |-> TRUE,
               events |-> <<"print_detected", "llm_safety", "print_confirmed">>]
         ELSE [raised |-> "none", ret |-> FALSE,
               events |-> <<"print_detected", "llm_safety", "print_llm_response">>]
    ELSE [raised |-> o.kind, ret |-> FALSE,
          events |-> <<"print_detected", "llm_safety">>]

NoKeywordRefuse == [raised |-> "none", ret |-> FALSE, events |-> <<>>]

\* the 'return True' after the loop
NoKeywordResult == [raised |-> "none", ret |-> TRUE, events |-> <<>>]

\* the keyword loop from the i-th keyword on
RECURSIVE KeywordLoop(_, _, _)
KeywordLoop(i, q, o) ==
    IF i > Len(Keywords) THEN NoKeywordResult
    ELSE IF KeywordIn(Keywords[i], q) THEN Adjudicate(o)
    ELSE KeywordLoop(i + 1, q, o)

\* a keyword loop that returns only on a reply that is safe, and goes on to the
\* next keyword otherwise
RECURSIVE KeywordLoopNoReturn(_, _, _, _)
KeywordLoopNoReturn(i, q, o, seen) ==
    IF i > Len(Keywords)
    THEN [raised |-> "none", ret |-> (seen = <<>>), events |-> seen]
    ELSE IF KeywordIn(Keywords[i], q)
         THEN LET r == Adjudicate(o)
              IN  IF r.raised = "none" /\ ~r.ret
                  THEN KeywordLoopNoReturn(i + 1, q, o, seen \o r.events)
                  ELSE [r EXCEPT !.events = seen \o r.events]
         ELSE KeywordLoopNoReturn(i + 1, q, o, seen)

refine_prompt_no_return(q, o) == KeywordLoopNoReturn(1, q, o, <<>>)

refine_prompt(q, o) == KeywordLoop(1, q, o)

(***************************************************************************)
(* check_for_visualization_request: one LLM call; True iff the reply,      *)
(* stripped and lower-cased, is "yes".                                     *)
(***************************************************************************)
IsYesUnstripped(text) == Lower(text) = YesText

\* response.content.strip().lower() == "yes"
IsYes(text) == Lower(Strip(text)) = YesText

check_for_visualization_request(o) ==
    IF o.kind = "ok"
    THEN [raised |-> "none", ret |-> IsYes(o.text), events |-> <<"llm_decider">>]
    ELSE [raised |-> o.kind, ret |-> FALSE, events |-> <<"llm_decider">>]

(***************************************************************************)
(* ask_llm_to_generate_code: one LLM call; the reply is cut to start at    *)
(* find("import"), the fence markers are removed and the text is stripped. *)
(***************************************************************************)
\* a cleaning that leaves the reply whole when it has no "import"
CleanCodeGuarded(text) ==
    LET start == Find(ImportText, text)
    IN  Strip(Remove(Fence, Remove(FencePython,
              IF start = -1 THEN text ELSE SliceFrom(text, start))))

CleanCode(text) ==
    Strip(Remove(Fence, Remove(FencePython, SliceFrom(text, Find(ImportText, text)))))

ask_llm_to_generate_code(o) ==
    IF o.kind = "ok"
    THEN [raised |-> "none", ret |-> CleanCode(o.text),
          events |-> <<"llm_codegen", "print_cleaned">>]
    ELSE [raised |-> o.kind, ret |-> <<>>, events |-> <<"llm_codegen">>]

(***************************************************************************)
(* execute_generated_code: exec() of the code; an Exception is caught and  *)
(* printed with the code, a KeyboardInterrupt leaves the function.         *)
(***************************************************************************)
execute_generated_code_catch_all(o) ==
    IF o.kind = "ok"
    THEN [raised |-> "none", events |-> <<"exec", "print_exec_ok">>]
    ELSE [raised |-> "none",
          events |-> <<"exec", "print_exec_error", "print_exec_code">>]

execute_generated_code(o) ==
    IF o.kind = "ok"
    THEN [raised |-> "none", events |-> <<"exec", "print_exec_ok">>]
    ELSE IF o.kind = "exc"
    THEN [raised |-> "none",
          events |-> <<"exec", "print_exec_error", "print_exec_code">>]
    ELSE [raised |-> o.kind, events |-> <<"exec">>]

\* the text between the first marker and the second
ExtractSQLFirst(response) ==
    LET rest == SliceFrom(response, Find(SqlMarker, response) + Len(SqlMarker))
        next == Find(SqlMarker, rest)
    IN  IF Find(SqlMarker, response) = -1 THEN Strip(response)
        ELSE IF next = -1 THEN Strip(rest)
        ELSE Strip(SubSeq(rest, 1, next))

\* response.split("SQLQuery:")[-1].strip()
ExtractSQL(response) == Strip(LastPiece(SqlMarker, response))

(***************************************************************************)
(* Inputs of the session loop: what the console, the LLM, the chain and    *)
(* the database may hand back.                                             *)
(***************************************************************************)
\* "exit", "EXIT", "eXiT", "exit ", "top 5", "drop t", "my Token",
\* "UPDATE password"
Questions == {
    <<"e", "x", "i", "t">>,
    <<"E", "X", "I", "T">>,
    <<"e", "X", "i", "T">>,
    <<"e", "x", "i", "t", " ">>,
    <<"t", "o", "p", " ", "5">>,
    <<"d", "r", "o", "p", " ", "t">>,
    <<"m", "y", " ", "T", "o", "k", "e", "n">>,
    <<"U", "P", "D", "A", "T", "E", " ", "p", "a", "s", "s", "w", "o", "r", "d">> }

\* "safe to proceed", "Safe To Proceed.", "Warning", "yes", " YES\n", "no",
\* "x import y", "```python\nimport y```"
LLMReplies == {
    <<"s", "a", "f", "e", " ", "t", "o", " ", "p", "r", "o", "c", "e", "e", "d">>,
    <<"S", "a", "f", "e", " ", "T", "o", " ", "P", "r", "o", "c", "e", "e", "d", ".">>,
    <<"W", "a", "r", "n", "i", "n", "g">>,
    <<"y", "e", "s">>,
    <<" ", "Y", "E", "S", "\n">>,
    <<"n", "o">>,
    <<"x", " ", "i", "m", "p", "o", "r", "t", " ", "y">>,
    FencePython \o <<"\n", "i", "m", "p", "o", "r", "t", " ", "y">> \o Fence }

\* "SQLQuery: S1", "q SQLQuery: S1 SQLQuery: DROP t\n", "S2"
ChainResponses == {
    <<"S", "Q", "L", "Q", "u", "e", "r", "y", ":", " ", "S", "1">>,
    <<"q", " ", "S", "Q", "L", "Q", "u", "e", "r", "y", ":", " ", "S", "1", " ",
      "S", "Q", "L", "Q", "u", "e", "r", "y", ":", " ", "D", "R", "O", "P", " ", "t", "\n">>,
    <<"S", "2">> }

\* "r1", ""
QueryResults == { <<"r", "1">>, <<>> }

\* "groq", " Groq ", "llama2"
Choices == {
    <<"g", "r", "o", "q">>,
    <<" ", "G", "r", "o", "q", " ">>,
    <<"l", "l", "a", "m", "a", "2">> }

\* the global names generated code may rebind when exec() runs it in globals()
Rebindable == {"question", "sql_query", "result"}

\* the value such a name is rebound to
ReboundText == <<"g">>

\* a name not bound yet
Unbound == <<"unbound">>

(***************************************************************************)
(* Inputs of the functions checked on their own.                           *)
(***************************************************************************)
\* "top", "Drop", "TOKENS", "updated", "tok", "en"
Vocabulary == {
    <<"t", "o", "p">>,
    <<"D", "r", "o", "p">>,
    <<"T", "O", "K", "E", "N", "S">>,
    <<"u", "p", "d", "a", "t", "e", "d">>,
    <<"t", "o", "k">>,
    <<"e", "n">> }

RECURSIVE JoinWords(_)
JoinWords(ws) ==
    IF Len(ws) = 0 THEN <<>>
    ELSE IF Len(ws) = 1 THEN ws[1]
    ELSE ws[1] \o <<" ">> \o JoinWords(Tail(ws))

\* the questions of at most MaxWords words of the vocabulary
ProbeQuestions ==
    {JoinWords(ws) : ws \in UNION {[1..n -> Vocabulary] : n \in 0..MaxWords}}

\* "safe to proceed", "It is Safe To Proceed", "safe  to proceed", "Warning",
\* "yes", "YES", "Yes.", "no", "maybe", "", "y es"
ReplyCores == {
    <<"s", "a", "f", "e", " ", "t", "o", " ", "p", "r", "o", "c", "e", "e", "d">>,
    <<"I", "t", " ", "i", "s", " ", "S", "a", "f", "e", " ", "T", "o", " ",
      "P", "r", "o", "c", "e", "e", "d">>,
    <<"s", "a", "f", "e", " ", " ", "t", "o", " ", "p", "r", "o", "c", "e", "e", "d">>,
    <<"W", "a", "r", "n", "i", "n", "g">>,
    <<"y", "e", "s">>,
    <<"Y", "E", "S">>,
    <<"Y", "e", "s", ".">>,
    <<"n", "o">>,
    <<"m", "a", "y", "b", "e">>,
    <<>>,
    <<"y", " ", "e", "s">> }

PadChars == {" ", "\n"}

Pads == UNION {[1..n -> PadChars] : n \in 0..MaxPad}

\* the reply cores with at most MaxPad whitespace characters around them
ProbeReplies ==
    {l \o core \o r : <<l, r>> \in {lr \in Pads \X Pads : Len(lr[1]) + Len(lr[2]) <= MaxPad},
                      core \in ReplyCores}

\* what a code-generation reply may say before the code:
\* "", "x", "Code:\n", "```python\n", "important:\n", "plot()```"
Proses == {
    <<>>,
    <<"x">>,
    <<"C", "o", "d", "e", ":", "\n">>,
    FencePython \o <<"\n">>,
    <<"i", "m", "p", "o", "r", "t", "a", "n", "t", ":", "\n">>,
    <<"p", "l", "o", "t", "(", ")">> \o Fence }

\* the code of such a reply: none, "import y", "import y\n```"
CodeTexts == {
    <<>>,
    <<"i", "m", "p", "o", "r", "t", " ", "y">>,
    <<"i", "m", "p", "o", "r", "t", " ", "y", "\n">> \o Fence }

\* the pairs of paddings of at most MaxPad characters together
PadPairs == {lr \in Pads \X Pads : Len(lr[1]) + Len(lr[2]) <= MaxPad}

NoProbe == [fn |-> "none"]

ProbeInputs ==
    {[fn |-> "refine_prompt", done |-> FALSE, question |-> q, outcome |-> o] :
        q \in ProbeQuestions, o \in Outcomes(ProbeReplies)}
    \cup
    {[fn |-> "check_for_visualization_request", done |-> FALSE, outcome |-> o] :
        o \in Outcomes(ProbeReplies)}
    \cup
    {[fn |-> "ask_llm_to_generate_code", done |-> FALSE, prose |-> lr[1] \o p,
      code |-> c \o lr[2], outcome |-> Returned(lr[1] \o p \o c \o lr[2])] :
        lr \in PadPairs, p \in Proses, c \in CodeTexts}
    \cup
    {[fn |-> "ask_llm_to_generate_code", done |-> FALSE, prose |-> <<>>,
      code |-> <<>>, outcome |-> o] : o \in {RaisedException, RaisedInterrupt}}

(***************************************************************************)
(* State.                                                                  *)
(***************************************************************************)
VARIABLES
    pc,              \* the stage of the session loop
    question,        \* global question
    sql_query,       \* global sql_query
    result,          \* global result
    llm_choice,      \* global llm_choice
    llm,             \* global llm
    generated_code,  \* global generated_code
    trace,           \* console reads, prints and external calls of this iteration
    verdict,         \* what refine_prompt returned in this iteration
    vis,             \* what check_for_visualization_request returned in it
    failed,          \* the stage whose call raised last in it, and what
    io,              \* what this iteration read, passed to and got from outside
    probe            \* a function checked on its own: its input, then its result

vars == <<pc, question, sql_query, result, llm_choice, llm, generated_code,
          trace, verdict, vis, failed, io, probe>>

globals == <<question, sql_query, result, llm_choice, llm, generated_code>>

NoFailure == [stage |-> "none", kind |-> "none"]

\* nothing read, passed or received yet in the iteration
NoIO == [asked |-> Unbound, response |-> Unbound, db_arg |-> Unbound,
         db_result |-> Unbound, choice |-> Unbound, prompt |-> Unbound,
         models |-> {}]

LoopInit ==
    /\ pc = "AwaitingInput"
    /\ question = Unbound
    /\ sql_query = Unbound
    /\ result = Unbound
    /\ llm_choice = Unbound
    /\ llm = "unbound"
    /\ generated_code = Unbound
    /\ trace = <<>>
    /\ verdict = "none"
    /\ vis = "none"
    /\ failed = NoFailure
    /\ io = NoIO

Init == LoopInit /\ probe = NoProbe

(***************************************************************************)
(* The session loop.  Each action is one stage of the loop body: the       *)
(* blocking call of the stage with its outcome, and everything the loop    *)
(* does with it up to the next blocking call.                              *)
(***************************************************************************)
IsExitExact(q) == q = ExitText

IsExitStripped(q) == Lower(Strip(q)) = ExitText

\* question.lower() == "exit"
IsExit(q) == Lower(q) = ExitText

AfterRefineIgnored(ret) == "Translating"

\* if not refine_prompt(...): continue
AfterRefine(ret) == IF ret THEN "Translating" ELSE "AwaitingInput"

\* if check_for_visualization_request(...): ... else: ...
AfterDecision(ret) == IF ret THEN "Visualizing" ELSE "Summarizing"

AfterVisualizingContinue == "AwaitingInput"

\* execute_generated_code has returned: the try block of the visualization is
\* left and the final answer follows
AfterVisualizing == "Summarizing"

\* the stage that follows a stage when nothing fails
Successor(stage) ==
    CASE stage = "AwaitingInput" -> "Classifying"
      [] stage = "Classifying" -> "Translating"
      [] stage = "Translating" -> "Executing"
      [] stage = "Executing" -> "ChoosingModel"
      [] stage = "ChoosingModel" -> "DecidingVisualization"
      [] stage = "DecidingVisualization" -> "Visualizing"
      [] stage = "Visualizing" -> "RunningCode"
      [] stage = "RunningCode" -> "Summarizing"
      [] OTHER -> "AwaitingInput"

\* what the 'except Exception' around a stage prints; the stages outside the
\* inner try blocks are caught by the one around the loop body
WarningOf(stage) ==
    CASE stage = "Translating" -> "warn_sql"
      [] stage = "Executing" -> "warn_db"
      [] stage \in {"DecidingVisualization", "Visualizing", "RunningCode"} -> "warn_vis"
      [] stage = "Summarizing" -> "warn_answer"
      [] OTHER -> "notice_unexpected"

\* a KeyboardInterrupt passes every 'except Exception' and reaches the
\* 'except KeyboardInterrupt' around the loop body
HandlerEvent(stage, kind) ==
    IF kind = "kbd" THEN "notice_interrupt" ELSE WarningOf(stage)

AfterFailureFallThrough(stage, kind) ==
    IF kind = "exc" THEN Successor(stage) ELSE "AwaitingInput"

AfterFailureDatabaseEscapes(stage, kind) ==
    IF stage = "Executing" THEN "Exiting" ELSE "AwaitingInput"

AfterFailureEscapes(stage, kind) ==
    IF stage = "AwaitingInput" THEN "AwaitingInput" ELSE "Crashed"

\* every handler ends the iteration: 'continue', or the end of the loop body
AfterFailure(stage, kind) == "AwaitingInput"

\* a stage's call raised and the exception reached a handler of the loop
Fail(stage, kind, events) ==
    /\ pc' = AfterFailure(stage, kind)
    /\ trace' = trace \o events \o <<HandlerEvent(stage, kind)>>
    /\ failed' = [stage |-> stage, kind |-> kind]

\* question = input(...); the exit check
ReadQuestionOf(texts) ==
    /\ pc = "AwaitingInput"
    /\ verdict' = "none"
    /\ vis' = "none"
    /\ \E o \in Outcomes(texts) :
          IF o.kind = "ok"
          THEN /\ question' = o.text
               /\ io' = [NoIO EXCEPT !.asked = o.text]
               /\ failed' = NoFailure
               /\ IF IsExit(o.text)
                  THEN /\ pc' = "Exiting"
                       /\ trace' = <<"input_question", "print_exiting">>
                  ELSE /\ pc' = "Classifying"
                       /\ trace' = <<"input_question">>
          ELSE /\ question' = question
               /\ io' = NoIO
               /\ pc' = AfterFailure("AwaitingInput", o.kind)
               /\ trace' = <<"input_question", HandlerEvent("AwaitingInput", o.kind)>>
               /\ failed' = [stage |-> "AwaitingInput", kind |-> o.kind]
    /\ UNCHANGED <<sql_query, result, llm_choice, llm, generated_code, probe>>

ReadQuestion == ReadQuestionOf(Questions)

\* if not refine_prompt(llm_groq, question): continue
ClassifyOf(replies) ==
    /\ pc = "Classifying"
    /\ \E o \in Outcomes(replies) :
          LET r == refine_prompt(question, o)
          IN  /\ io' = IF \E i \in DOMAIN r.events : r.events[i] = "llm_safety"
                        THEN [io EXCEPT !.models = @ \cup {"llm_groq"}]
                        ELSE io
              /\ IF r.raised = "none"
                 THEN /\ verdict' = (IF r.ret THEN "proceed" ELSE "refuse")
                      /\ pc' = AfterRefine(r.ret)
                      /\ trace' = trace \o r.events
                      /\ failed' = failed
                 ELSE /\ verdict' = verdict
                      /\ Fail("Classifying", r.raised, r.events)
    /\ UNCHANGED <<globals, vis, probe>>

Classify == ClassifyOf(LLMReplies)

\* response = chain.invoke(...); sql_query = response.split("SQLQuery:")[-1].strip()
TranslateOf(responses) ==
    /\ pc = "Translating"
    /\ \E o \in Outcomes(responses) :
          IF o.kind = "ok"
          THEN /\ sql_query' = ExtractSQL(o.text)
               /\ io' = [io EXCEPT !.response = o.text, !.models = @ \cup {"llm_groq"}]
               /\ pc' = "Executing"
               /\ trace' = trace \o <<"chain">>
               /\ failed' = failed
          ELSE /\ sql_query' = sql_query
               /\ io' = [io EXCEPT !.models = @ \cup {"llm_groq"}]
               /\ Fail("Translating", o.kind, <<"chain">>)
    /\ UNCHANGED <<question, result, llm_choice, llm, generated_code, verdict, vis, probe>>

Translate == TranslateOf(ChainResponses)

\* result = db.run(sql_query)
ExecuteOf(results) ==
    /\ pc = "Executing"
    /\ \E o \in Outcomes(results) :
          IF o.kind = "ok"
          THEN /\ result' = o.text
               /\ io' = [io EXCEPT !.db_arg = sql_query, !.db_result = o.text]
               /\ pc' = "ChoosingModel"
               /\ trace' = trace \o <<"db">>
               /\ failed' = failed
          ELSE /\ result' = result
               /\ io' = [io EXCEPT !.db_arg = sql_query]
               /\ Fail("Executing", o.kind, <<"db">>)
    /\ UNCHANGED <<question, sql_query, llm_choice, llm, generated_code, verdict, vis, probe>>

Execute == ExecuteOf(QueryResults)

SelectModelSecondBackend(choice) ==
    IF choice = GroqText THEN "llm_groq" ELSE "llm_llama2"

\* the model bound to llm for a choice: both branches bind llm_groq
SelectModel(choice) == IF choice = GroqText THEN "llm_groq" ELSE "llm_groq"

\* llm_choice = input("Choose LLM (groq/llama2): ").strip().lower()
ChooseModelOf(choices) ==
    /\ pc = "ChoosingModel"
    /\ \E o \in Outcomes(choices) :
          IF o.kind = "ok"
          THEN LET choice == Lower(Strip(o.text))
               IN  /\ llm_choice' = choice
                   /\ io' = [io EXCEPT !.choice = o.text]
                   /\ llm' = SelectModel(choice)
                   /\ pc' = "DecidingVisualization"
                   /\ trace' = trace \o <<"input_choice">> \o
                         (IF choice = GroqText THEN <<>> ELSE <<"print_invalid_choice">>)
                   /\ failed' = failed
          ELSE /\ UNCHANGED <<llm_choice, llm, io>>
               /\ Fail("ChoosingModel", o.kind, <<"input_choice">>)
    /\ UNCHANGED <<question, sql_query, result, generated_code, verdict, vis, probe>>

ChooseModel == ChooseModelOf(Choices)

\* if check_for_visualization_request(llm_groq, question): ... else: print(...)
DecideVisualizationOf(replies) ==
    /\ pc = "DecidingVisualization"
    /\ \E o \in Outcomes(replies) :
          LET r == check_for_visualization_request(o)
          IN  /\ io' = [io EXCEPT !.models = @ \cup {"llm_groq"}]
              /\ IF r.raised = "none"
                 THEN /\ vis' = (IF r.ret THEN "yes" ELSE "no")
                      /\ pc' = AfterDecision(r.ret)
                      /\ trace' = trace \o r.events \o
                            <<IF r.ret THEN "print_vis_requested" ELSE "print_answer_result">>
                      /\ failed' = failed
                 ELSE /\ vis' = vis
                      /\ Fail("DecidingVisualization", r.raised, r.events)
    /\ UNCHANGED <<globals, verdict, probe>>

DecideVisualization == DecideVisualizationOf(LLMReplies)

\* generated_code = ask_llm_to_generate_code(llm_groq, sql_query, result)
GenerateCodeOf(replies) ==
    /\ pc = "Visualizing"
    /\ \E o \in Outcomes(replies) :
          LET r == ask_llm_to_generate_code(o)
          IN  /\ io' = [io EXCEPT !.models = @ \cup {"llm_groq"}]
              /\ IF r.raised = "none"
                 THEN /\ generated_code' = r.ret
                      /\ pc' = "RunningCode"
                      /\ trace' = trace \o r.events \o <<"print_generated">>
                      /\ failed' = failed
                 ELSE /\ generated_code' = generated_code
                      /\ Fail("Visualizing", r.raised, r.events)
    /\ UNCHANGED <<question, sql_query, result, llm_choice, llm, verdict, vis, probe>>

GenerateCode == GenerateCodeOf(LLMReplies)

\* the globals after exec(generated_code, globals()) rebound the name 'name'
Rebind(name, old, this) == IF name = this THEN ReboundText ELSE old

\* execute_generated_code(generated_code)
RunCode ==
    /\ pc = "RunningCode"
    /\ \E o \in Outcomes({<<>>}), name \in {"none"} \cup Rebindable :
          LET r == execute_generated_code(o)
          IN  /\ question' = Rebind(name, question, "question")
              /\ sql_query' = Rebind(name, sql_query, "sql_query")
              /\ result' = Rebind(name, result, "result")
              /\ IF r.raised = "none"
                 THEN /\ pc' = AfterVisualizing
                      /\ trace' = trace \o r.events
                      /\ failed' = IF o.kind = "ok" THEN failed
                                   ELSE [stage |-> "RunningCode", kind |-> o.kind]
                 ELSE Fail("RunningCode", r.raised, r.events)
    /\ UNCHANGED <<llm_choice, llm, generated_code, verdict, vis, io, probe>>

\* final_response = llm.invoke([HumanMessage(answer_prompt.format(...))])
SummarizeOf(replies) ==
    /\ pc = "Summarizing"
    /\ io' = [io EXCEPT !.prompt = <<question, sql_query, result>>,
                         !.models = @ \cup {llm}]
    /\ \E o \in Outcomes(replies) :
          IF o.kind = "ok"
          THEN /\ pc' = "AwaitingInput"
               /\ trace' = trace \o <<"llm_answer", "print_final">>
               /\ failed' = failed
          ELSE Fail("Summarizing", o.kind, <<"llm_answer">>)
    /\ UNCHANGED <<globals, verdict, vis, probe>>

Summarize == SummarizeOf(LLMReplies)

Next ==
    \/ ReadQuestion
    \/ Classify
    \/ Translate
    \/ Execute
    \/ ChooseModel
    \/ DecideVisualization
    \/ GenerateCode
    \/ RunCode
    \/ Summarize

Spec == Init /\ [][Next]_vars

(***************************************************************************)
(* The loop with fewer inputs, one of each kind the loop tells apart, and  *)
(* with fairness: every blocking call of the loop returns or raises, no    *)
(* stage waits for ever.  At most one action is enabled in a state, so     *)
(* the fairness of the next-state relation is the fairness of each stage.  *)
(***************************************************************************)
\* "exit", "top 5", "drop t"
LiveQuestions == {
    <<"e", "x", "i", "t">>,
    <<"t", "o", "p", " ", "5">>,
    <<"d", "r", "o", "p", " ", "t">> }

\* "safe to proceed", "Warning", "yes"
LiveReplies == {
    <<"s", "a", "f", "e", " ", "t", "o", " ", "p", "r", "o", "c", "e", "e", "d">>,
    <<"W", "a", "r", "n", "i", "n", "g">>,
    <<"y", "e", "s">> }

\* "S2"
LiveChainResponses == { <<"S", "2">> }

\* "r1"
LiveQueryResults == { <<"r", "1">> }

\* "groq", "llama2"
LiveChoices == {
    <<"g", "r", "o", "q">>,
    <<"l", "l", "a", "m", "a", "2">> }

LiveReadQuestion == ReadQuestionOf(LiveQuestions)

LiveClassify == ClassifyOf(LiveReplies)

LiveTranslate == TranslateOf(LiveChainResponses)

LiveExecute == ExecuteOf(LiveQueryResults)

LiveChooseModel == ChooseModelOf(LiveChoices)

LiveDecideVisualization == DecideVisualizationOf(LiveReplies)

LiveGenerateCode == GenerateCodeOf(LiveReplies)

LiveSummarize == SummarizeOf(LiveReplies)

LiveNext ==
    \/ LiveReadQuestion
    \/ LiveClassify
    \/ LiveTranslate
    \/ LiveExecute
    \/ LiveChooseModel
    \/ LiveDecideVisualization
    \/ LiveGenerateCode
    \/ RunCode
    \/ LiveSummarize

FairSpec == Init /\ [][LiveNext]_vars /\ WF_vars(LiveNext)

(***************************************************************************)
(* The functions on their own: the initial state holds an input, the       *)
(* action applies the function to it.                                      *)
(***************************************************************************)
PureInit == LoopInit /\ probe \in ProbeInputs

ProbeRefinePrompt ==
    /\ probe.fn = "refine_prompt"
    /\ ~probe.done
    /\ probe' = [fn |-> probe.fn, done |-> TRUE, question |-> probe.question,
                 outcome |-> probe.outcome,
                 out |-> refine_prompt(probe.question, probe.outcome)]
    /\ UNCHANGED <<pc, globals, trace, verdict, vis, failed, io>>

ProbeVisualizationRequest ==
    /\ probe.fn = "check_for_visualization_request"
    /\ ~probe.done
    /\ probe' = [fn |-> probe.fn, done |-> TRUE, outcome |-> probe.outcome,
                 out |-> check_for_visualization_request(probe.outcome)]
    /\ UNCHANGED <<pc, globals, trace, verdict, vis, failed, io>>

ProbeGenerateCode ==
    /\ probe.fn = "ask_llm_to_generate_code"
    /\ ~probe.done
    /\ probe' = [fn |-> probe.fn, done |-> TRUE, prose |-> probe.prose,
                 code |-> probe.code, outcome |-> probe.outcome,
                 out |-> ask_llm_to_generate_code(probe.outcome)]
    /\ UNCHANGED <<pc, globals, trace, verdict, vis, failed, io>>

PureNext ==
    \/ ProbeRefinePrompt
    \/ ProbeVisualizationRequest
    \/ ProbeGenerateCode

PureSpec == PureInit /\ [][PureNext]_vars

(***************************************************************************)
(* Vocabulary of the properties.                                           *)
(***************************************************************************)
CountIn(events, e) == Cardinality({i \in DOMAIN events : events[i] = e})

Count(e) == CountIn(trace, e)

Has(e) == \E i \in DOMAIN trace : trace[i] = e

LastEvent == IF trace = <<>> THEN "nothing" ELSE trace[Len(trace)]

\* the blocking steps of an iteration, in the order of the loop body
StageEvents == <<"input_question", "llm_safety", "chain", "db", "input_choice",
                 "llm_decider", "llm_codegen", "exec", "llm_answer">>

ExternalCalls == {"llm_safety", "chain", "db", "llm_decider", "llm_codegen", "llm_answer"}

Rank(e) == CHOOSE i \in DOMAIN StageEvents : StageEvents[i] = e

EventOf(stage) ==
    CASE stage = "AwaitingInput" -> "input_question"
      [] stage = "Classifying" -> "llm_safety"
      [] stage = "Translating" -> "chain"
      [] stage = "Executing" -> "db"
      [] stage = "ChoosingModel" -> "input_choice"
      [] stage = "DecidingVisualization" -> "llm_decider"
      [] stage = "Visualizing" -> "llm_codegen"
      [] stage = "RunningCode" -> "exec"
      [] stage = "Summarizing" -> "llm_answer"

\* nothing that comes after the stage in the loop body has run in this iteration
NothingAfter(stage) ==
    \A i \in DOMAIN trace :
        (\E k \in DOMAIN StageEvents : StageEvents[k] = trace[i])
            => Rank(trace[i]) <= Rank(EventOf(stage))

\* the text has one of the eleven keywords as a substring, letter case aside
HasKeyword(q) ==
    \E k \in DOMAIN Keywords, i \in 1..Len(q) :
        /\ i + Len(Keywords[k]) - 1 <= Len(q)
        /\ Lower(SubSeq(q, i, i + Len(Keywords[k]) - 1)) = Keywords[k]

\* the lower-cased text has "safe to proceed" as a substring
SaysSafe(t) ==
    \E i \in 1..Len(t) :
        /\ i + Len(SafeToProceed) - 1 <= Len(t)
        /\ Lower(SubSeq(t, i, i + Len(SafeToProceed) - 1)) = SafeToProceed

\* the text is "yes" in some letter case with only whitespace around it
SaysYes(t) ==
    \E i \in 1..Len(t) :
        /\ i + 2 <= Len(t)
        /\ Lower(SubSeq(t, i, i + 2)) = YesText
        /\ \A k \in 1..Len(t) : (k < i \/ k > i + 2) => t[k] \in Whitespace

RefineProbed == probe.fn = "refine_prompt" /\ probe.done

DeciderProbed == probe.fn = "check_for_visualization_request" /\ probe.done

(***************************************************************************)
(* C1: when refine_prompt returns false for the question of an iteration,  *)
(* the chain, the database, the model-choice prompt, the visualization     *)
(* decider, the code generation and the answer synthesis do not run in     *)
(* that iteration, and the loop is back at AwaitingInput.                  *)
(***************************************************************************)
C1_RefusalAbortsIteration ==
    verdict = "refuse" =>
        /\ pc = "AwaitingInput"
        /\ Has("llm_safety")
        /\ NothingAfter("Classifying")

C1_Witness ==
    /\ verdict = "refuse"
    /\ LastEvent = "print_llm_response"
    /\ HasKeyword(question)

(***************************************************************************)
(* C2: for a question with none of the eleven keywords as a                *)
(* case-insensitive substring, refine_prompt returns True and makes no     *)
(* LLM call.                                                               *)
(***************************************************************************)
C2_NoKeywordProceedsWithoutLLM ==
    (RefineProbed /\ ~HasKeyword(probe.question)) =>
        /\ probe.out.raised = "none"
        /\ probe.out.ret = TRUE
        /\ CountIn(probe.out.events, "llm_safety") = 0

\* "tok en": the letters of a keyword, but not as a substring
C2_Witness ==
    /\ RefineProbed
    /\ probe.question = <<"t", "o", "k", " ", "e", "n">>
    /\ probe.out.ret

(***************************************************************************)
(* C3: for a question with at least one keyword (several different ones    *)
(* included), refine_prompt calls the LLM exactly once, and it returns     *)
(* True iff the lower-cased reply contains "safe to proceed".              *)
(***************************************************************************)
C3_KeywordAsksLLMOnce ==
    (RefineProbed /\ HasKeyword(probe.question)) =>
        /\ CountIn(probe.out.events, "llm_safety") = 1
        /\ probe.outcome.kind = "ok" =>
              /\ probe.out.raised = "none"
              /\ probe.out.ret = SaysSafe(probe.outcome.text)

\* "Drop TOKENS" answered "It is Safe To Proceed"
C3_Witness ==
    /\ RefineProbed
    /\ probe.question = <<"D", "r", "o", "p", " ", "T", "O", "K", "E", "N", "S">>
    /\ probe.outcome.kind = "ok"
    /\ probe.outcome.text = <<"I", "t", " ", "i", "s", " ", "S", "a", "f", "e", " ",
                              "T", "o", " ", "P", "r", "o", "c", "e", "e", "d">>
    /\ probe.out.ret

(***************************************************************************)
(* C4, as stated: after the visualization decider exactly one branch runs: *)
(* on true the code is generated and executed and the answer-synthesis     *)
(* call is not made, on false only the answer-synthesis call is made.      *)
(***************************************************************************)
C4_ExactlyOneBranch ==
    /\ vis = "yes" => ~Has("llm_answer")
    /\ vis = "no" => ~Has("llm_codegen") /\ ~Has("exec")

(***************************************************************************)
(* C4, amended: on true the code is generated and executed and then, when  *)
(* execute_generated_code has returned, the answer-synthesis call is made  *)
(* as well; on false the code is neither generated nor executed and only   *)
(* the answer-synthesis call is made; after the answer-synthesis call the  *)
(* loop is back at AwaitingInput.                                          *)
(***************************************************************************)
C4_ChartThenAnswer ==
    /\ vis = "no" =>
          /\ ~Has("llm_codegen") /\ ~Has("exec")
          /\ pc \in {"Summarizing", "AwaitingInput"}
          /\ pc = "AwaitingInput" => Has("llm_answer")
    /\ vis = "yes" =>
          /\ pc \in {"Visualizing", "RunningCode", "Summarizing", "AwaitingInput"}
          /\ pc \in {"RunningCode", "Summarizing"} => Has("llm_codegen")
          /\ pc = "Summarizing" => Has("exec")
          /\ pc = "AwaitingInput" =>
                \/ Has("llm_codegen") /\ Has("exec") /\ Has("llm_answer")
                \/ failed.stage = "Visualizing" /\ ~Has("exec") /\ ~Has("llm_answer")
                \/ failed = [stage |-> "RunningCode", kind |-> "kbd"] /\ ~Has("llm_answer")
    /\ vis = "none" => ~Has("llm_codegen") /\ ~Has("exec") /\ ~Has("llm_answer")
    /\ Has("llm_answer") => pc = "AwaitingInput"

C4_Witness ==
    /\ vis = "yes"
    /\ Has("llm_codegen")
    /\ Has("print_exec_ok")
    /\ LastEvent = "print_final"
    /\ pc = "AwaitingInput"

(***************************************************************************)
(* C5, as stated: when a stage fails - Classifying, Translating,           *)
(* Executing, DecidingVisualization, Visualizing (the code generation call *)
(* or the execution of the generated code) or Summarizing raises an        *)
(* exception - no later stage of the iteration runs and the loop is at     *)
(* AwaitingInput.                                                          *)
(***************************************************************************)
FailingStages == {"Classifying", "Translating", "Executing", "DecidingVisualization",
                  "Visualizing", "RunningCode", "Summarizing"}

C5_AnyFailureAborts ==
    (failed.kind = "exc" /\ failed.stage \in FailingStages) =>
        /\ pc = "AwaitingInput"
        /\ NothingAfter(failed.stage)

(***************************************************************************)
(* C5, amended: when the external call of Classifying, Translating,        *)
(* Executing, DecidingVisualization, Visualizing (code generation) or      *)
(* Summarizing raises an exception, no later stage of the iteration runs   *)
(* and the loop is at AwaitingInput; when the execution of the generated   *)
(* code raises an exception, execute_generated_code catches it, prints the *)
(* error and the code, and the iteration goes on to Summarizing.           *)
(***************************************************************************)
C5_CallFailureAborts ==
    /\ (failed.kind = "exc" /\ failed.stage \in FailingStages \ {"RunningCode"}) =>
          /\ pc = "AwaitingInput"
          /\ NothingAfter(failed.stage)
          /\ LastEvent = WarningOf(failed.stage)
    /\ failed = [stage |-> "RunningCode", kind |-> "exc"] =>
          /\ Has("print_exec_error")
          /\ pc \in {"Summarizing", "AwaitingInput"}
          /\ pc = "AwaitingInput" => LastEvent = "print_final"

\* the generated code raised, and then the answer synthesis raised
C5_Witness ==
    /\ failed = [stage |-> "Summarizing", kind |-> "exc"]
    /\ Has("print_exec_error")
    /\ LastEvent = "warn_answer"
    /\ pc = "AwaitingInput"

(***************************************************************************)
(* C6: when db.run raises, the loop does not reach Exiting, a warning is   *)
(* printed, the model-choice prompt, the visualization decider, the code   *)
(* generation and the answer synthesis do not run in that iteration, and   *)
(* the next console action is the main question prompt.                    *)
(***************************************************************************)
DatabaseFailed == failed = [stage |-> "Executing", kind |-> "exc"]

C6_DatabaseFailureSkipsTurn ==
    /\ [](DatabaseFailed =>
            /\ pc = "AwaitingInput"
            /\ LastEvent = "warn_db"
            /\ NothingAfter("Executing"))
    /\ [][DatabaseFailed => (trace'[1] = "input_question" /\ Len(trace') <= 2)]_vars

C6_Witness ==
    /\ DatabaseFailed
    /\ Count("db") = 1
    /\ verdict = "proceed"

(***************************************************************************)
(* C7: when the main prompt reads "exit" in any letter case, the loop ends *)
(* in that iteration: no console prompt, LLM call, chain call or database  *)
(* call follows that input.                                                *)
(***************************************************************************)
ReadExit ==
    /\ trace # <<>>
    /\ failed.stage # "AwaitingInput"
    /\ Lower(question) = ExitText

C7_ExitEndsLoop ==
    /\ [](ReadExit => pc = "Exiting" /\ trace = <<"input_question", "print_exiting">>)
    /\ [][pc # "Exiting"]_vars

C7_Witness ==
    /\ pc = "Exiting"
    /\ question = <<"e", "X", "i", "T">>

(***************************************************************************)
(* C8: within one iteration each external call - safety LLM call, chain    *)
(* call, database execution, visualization-decider call, code-generation   *)
(* call, answer-synthesis call - is made at most once, whether it succeeds *)
(* or fails.                                                               *)
(***************************************************************************)
C8_NoRetry == \A e \in ExternalCalls : Count(e) <= 1

\* two keywords in the question, the reply refuses: still one safety call
C8_Witness ==
    /\ verdict = "refuse"
    /\ question = <<"U", "P", "D", "A", "T", "E", " ", "p", "a", "s", "s", "w", "o", "r", "d">>
    /\ Count("llm_safety") = 1

(***************************************************************************)
(* C9: a KeyboardInterrupt raised at either console prompt, during any     *)
(* external call or during the execution of generated code is caught at    *)
(* the loop level: the loop does not terminate, the rest of the iteration  *)
(* is skipped, and the loop is at AwaitingInput.                           *)
(***************************************************************************)
C9_InterruptSkipsTurn ==
    failed.kind = "kbd" =>
        /\ pc = "AwaitingInput"
        /\ LastEvent = "notice_interrupt"
        /\ NothingAfter(failed.stage)

C9_Witness ==
    /\ failed = [stage |-> "RunningCode", kind |-> "kbd"]
    /\ pc = "AwaitingInput"
    /\ Has("exec")

(***************************************************************************)
(* C10: check_for_visualization_request makes exactly one LLM call and     *)
(* returns True iff the reply, with the whitespace around it trimmed and   *)
(* lower-cased, is exactly "yes".                                          *)
(***************************************************************************)
C10_YesOnly ==
    DeciderProbed =>
        /\ CountIn(probe.out.events, "llm_decider") = 1
        /\ probe.outcome.kind = "ok" =>
              /\ probe.out.raised = "none"
              /\ probe.out.ret = SaysYes(probe.outcome.text)

\* "\nYES"
C10_Witness ==
    /\ DeciderProbed
    /\ probe.outcome.kind = "ok"
    /\ probe.outcome.text = <<"\n", "Y", "E", "S">>
    /\ probe.out.ret

(***************************************************************************)
(* C12: in every iteration the SQL passed to the database is the one       *)
(* extracted from that iteration's chain response, and the question, SQL   *)
(* and result embedded in the answer prompt are that iteration's question, *)
(* extracted SQL and database result - also after generated code ran in    *)
(* the module's globals, and after an earlier iteration failed.            *)
(***************************************************************************)
C12_FreshValues ==
    /\ io.db_arg # Unbound =>
          /\ io.response # Unbound
          /\ io.db_arg = Strip(LastPiece(SqlMarker, io.response))
    /\ io.prompt # Unbound =>
          io.prompt = <<io.asked, Strip(LastPiece(SqlMarker, io.response)), io.db_result>>

(***************************************************************************)
(* C13: whatever is entered at the model-choice prompt, every LLM call of  *)
(* the iteration goes to the same model (llm_groq), the choice step        *)
(* changes nothing else of the iteration, and the invalid-choice notice is *)
(* printed iff the entry, trimmed and lower-cased, is not "groq".          *)
(***************************************************************************)
\* the text is "groq" in some letter case with only whitespace around it
SaysGroq(t) ==
    \E i \in 1..Len(t) :
        /\ i + 3 <= Len(t)
        /\ Lower(SubSeq(t, i, i + 3)) = GroqText
        /\ \A k \in 1..Len(t) : (k < i \/ k > i + 3) => t[k] \in Whitespace

C14_NoMutatingSQL ==
    (verdict = "proceed" /\ io.db_arg # Unbound) =>
        \A k \in DOMAIN modification_keywords :
            ~Contains(modification_keywords[k], Lower(io.db_arg))

(***************************************************************************)
(* C15: the stages of an iteration run in the order of the loop body: the  *)
(* chain only after the classifier returned proceed, the database only     *)
(* after the chain call succeeded, the model-choice prompt, the            *)
(* visualization decider and the code generator only after the database    *)
(* execution succeeded, the generated code only after it was generated,    *)
(* the answer synthesis only after the decider.                            *)
(***************************************************************************)
IsStageEvent(e) == \E k \in DOMAIN StageEvents : StageEvents[k] = e

C15_StageOrder ==
    /\ \A i, j \in DOMAIN trace :
          (i < j /\ IsStageEvent(trace[i]) /\ IsStageEvent(trace[j]))
              => Rank(trace[i]) < Rank(trace[j])
    /\ Has("llm_safety") => trace[1] = "input_question"
    /\ Has("chain") => verdict = "proceed"
    /\ Has("db") => verdict = "proceed" /\ Has("chain") /\ io.response # Unbound
    /\ Has("input_choice") => Has("db") /\ io.db_result # Unbound
    /\ Has("llm_decider") =>
          Has("input_choice") /\ io.choice # Unbound /\ io.db_result # Unbound
    /\ Has("llm_codegen") => Has("llm_decider") /\ vis = "yes" /\ io.db_result # Unbound
    /\ Has("exec") => Has("llm_codegen")
    /\ Has("llm_answer") => Has("llm_decider") /\ (vis = "no" \/ Has("exec"))

\* an iteration that ran every stage
C15_Witness ==
    /\ Has("llm_safety")
    /\ Has("exec")
    /\ Has("llm_answer")
    /\ pc = "AwaitingInput"

(***************************************************************************)
(* C17: the loop is at Exiting only when the main prompt read "exit" in    *)
(* some letter case with nothing around it; no failure of a stage, no      *)
(* exception and no KeyboardInterrupt leads to Exiting; a failing read of  *)
(* the main prompt is caught by the generic handler and the loop prompts   *)
(* again.                                                                  *)
(***************************************************************************)
C17_ExitOnlyOnExit ==
    /\ pc = "Exiting" =>
          /\ Len(io.asked) = 4
          /\ \A i \in 1..4 : LowerChar(io.asked[i]) = ExitText[i]
          /\ trace = <<"input_question", "print_exiting">>
    /\ failed # NoFailure => pc # "Exiting"
    /\ failed.stage = "AwaitingInput" =>
          /\ pc = "AwaitingInput"
          /\ trace = <<"input_question", HandlerEvent("AwaitingInput", failed.kind)>>

\* the read of the main prompt raised (end of input)
C17_Witness ==
    /\ failed = [stage |-> "AwaitingInput", kind |-> "exc"]
    /\ LastEvent = "notice_unexpected"
    /\ pc = "AwaitingInput"

(***************************************************************************)
(* C19: the string passed to db.run is the whitespace-trimmed text of the  *)
(* chain response after the last "SQLQuery:" marker, and the whole trimmed *)
(* response when the marker does not occur.                                *)
(***************************************************************************)
\* out is the trimmed text after the last marker of response
IsTextAfterLastMarker(response, out) ==
    \/ /\ \A p \in 1..Len(response) : ~MatchAt(SqlMarker, response, p)
       /\ out = Strip(response)
    \/ \E p \in 1..Len(response) :
          /\ MatchAt(SqlMarker, response, p)
          /\ \A q \in (p + 1)..Len(response) : ~MatchAt(SqlMarker, response, q)
          /\ out = Strip(SubSeq(response, p + Len(SqlMarker), Len(response)))

C19_ExtractedSQLIsRun ==
    io.db_arg # Unbound =>
        /\ io.response # Unbound
        /\ IsTextAfterLastMarker(io.response, io.db_arg)

\* two markers in the response: "DROP t" is run
C19_Witness ==
    /\ io.db_result # Unbound
    /\ Len(io.response) > 30
    /\ io.db_arg = <<"D", "R", "O", "P", " ", "t">>

(***************************************************************************)
(* C11: for a reply that is prose followed by code beginning with an       *)
(* import statement, ask_llm_to_generate_code returns the code alone:      *)
(* everything before the code's import is discarded, the fence markers are *)
(* removed, and the text returned starts at the code's import statement.   *)
(***************************************************************************)
CodegenProbed ==
    /\ probe.fn = "ask_llm_to_generate_code"
    /\ probe.done
    /\ probe.outcome.kind = "ok"

C11_ReturnsTheCode ==
    (CodegenProbed /\ MatchAt(ImportText, probe.code, 1)) =>
        /\ MatchAt(ImportText, probe.out.ret, 1)
        /\ ~Contains(Fence, probe.out.ret)
        /\ probe.out.ret = Strip(Remove(Fence, Remove(FencePython, probe.code)))

(***************************************************************************)
(* C18: for a reply without the substring "import",                        *)
(* ask_llm_to_generate_code keeps only the last character of the reply and *)
(* then strips fence markers and whitespace: the code returned has at most *)
(* one character, and it is not the reply with the fence markers stripped  *)
(* whenever that has more than one character.                              *)
(***************************************************************************)
LacksImport(t) ==
    \A i \in 1..Len(t) :
        i + 5 <= Len(t) => SubSeq(t, i, i + 5) # ImportText

LastCharacterOnly(t) ==
    IF t = <<>> \/ t[Len(t)] \in Whitespace THEN <<>> ELSE <<t[Len(t)]>>

BetweenIterations == pc \in {"AwaitingInput", "Exiting"}

C16_IterationEnds == (~BetweenIterations) ~> BetweenIterations

\* an iteration that ran through every stage, the last one failing, and ended
C16_Witness ==
    /\ pc = "AwaitingInput"
    /\ Has("llm_safety")
    /\ Has("print_exec_ok")
    /\ LastEvent = "warn_answer"

=============================================================================
